---- MODULE Spec2Model ----
(***************************************************************************)
(* A model of the tiered web fetcher: the escalation policy                *)
(* (src/src/policy.py), the robots.txt parser and the robots compliance    *)
(* cache (src/src/robots.py), the light fetcher (src/src/http_scraper.py), *)
(* the heavy fetcher (src/src/browser_scraper.py) and the per-URL fetch    *)
(* orchestrator that drives them.                                          *)
(*                                                                         *)
(* The specifications share the module's variables:                        *)
(*   SpecPolicy    should_escalate applied to every record/configuration   *)
(*                 of a bounded input space;                               *)
(*   SpecParse     one pass of RobotsCache._parse_robots over a robots.txt *)
(*                 text, one line per step;                                *)
(*   Spec          RobotsCache: construction from a persisted file, then   *)
(*                 concurrent allowed() calls that suspend at the network  *)
(*                 lookup, a clock and the disk mirror;                    *)
(*   SpecHttp      HttpScraper.fetch, one step per await;                  *)
(*   SpecBrowser   BrowserScraper: __aenter__, fetch (one step per await)  *)
(*                 and __aexit__;                                          *)
(*   SpecFetchers  the two scrapers of one configuration side by side;     *)
(*   SpecOrch      the orchestrator's state machines for the URLs of a     *)
(*                 run, interleaved at their suspension points.            *)
(* A component that a specification does not exercise stays in its idle    *)
(* initial state.                                                          *)
(***************************************************************************)
EXTENDS Integers, Sequences, FiniteSets, TLC

VARIABLES
    \* ---- escalation policy (policy.py) ----
    r,            \* the FetchResult handed to should_escalate
    config,       \* the ScrapeConfig handed to it, or NoConfig (config=None)
    called,       \* should_escalate has returned
    escalate,     \* its return value (meaningful once called)
    \* ---- RobotsCache._parse_robots (robots.py) ----
    doc,          \* the robots.txt file as authored: a sequence of pool lines
    content,      \* its text, the argument of _parse_robots
    lines,        \* [ln.strip() for ln in content.splitlines()]
    idx,          \* position of the for loop in lines (1-based)
    active_block, \* "None", "us" or "star"
    allow,        \* the local variable allowed
    ppc,          \* "start", "loop" or "done"
    parsed,       \* the return value (meaningful once ppc = "done")
    \* ---- RobotsCache (robots.py) ----
    cache,        \* self._cache: origin -> entry (AbsentEntry: no such key)
    disk,         \* the file at self.cache_path
    now,          \* the reading of time.time()
    task,         \* per caller: its allowed() call, its locals and outcome
    calls,        \* the number of allowed() calls made so far
    \* ---- HttpScraper (http_scraper.py) ----
    http,         \* the scraper: proxy, config, and its fetch() call
    \* ---- BrowserScraper (browser_scraper.py) ----
    bscraper,     \* the scraper object and the resources it holds
    bfetch,       \* its fetch() call: position, locals, page and outcome
    \* ---- the fetch orchestrator ----
    job,          \* per URL: its state machine, its records and outcome
    escalations,  \* the process-wide heavy-escalation counter
    run           \* the proxy settings of the run

polVars == <<r, config, called, escalate>>
parseVars == <<doc, content, lines, idx, active_block, allow, ppc, parsed>>
robVars == <<cache, disk, now, task, calls>>
httpVars == <<http>>
browserVars == <<bscraper, bfetch>>
orchVars == <<job, escalations, run>>

\* What each component leaves alone.
nonPolVars == <<parseVars, robVars, httpVars, browserVars, orchVars>>
nonParseVars == <<polVars, robVars, httpVars, browserVars, orchVars>>
nonRobVars == <<polVars, parseVars, httpVars, browserVars, orchVars>>
nonHttpVars == <<polVars, parseVars, robVars, browserVars, orchVars>>
nonBrowserVars == <<polVars, parseVars, robVars, httpVars, orchVars>>
nonOrchVars == <<polVars, parseVars, robVars, httpVars, browserVars>>

(***************************************************************************)
(* Null values.  Python's None is a value of its own; here a nullable      *)
(* string is NoneStr and a nullable integer is NoneInt, neither of which   *)
(* a real error name or status code can equal.                             *)
(***************************************************************************)
NoneStr == "<None>"
NoneInt == 0 - 1

(***************************************************************************)
(* ScrapeConfig: the fields the policy reads, with the built-in defaults.  *)
(* Durations are whole seconds.                                            *)
(***************************************************************************)
DefaultEscalationMinBytes == 2048
DefaultEscalationLatencyS == 5

DEFAULT_SCRAPE_CONFIG ==
    [escalation_min_bytes        |-> DefaultEscalationMinBytes,
     escalation_consider_latency |-> FALSE,
     escalation_latency_s        |-> DefaultEscalationLatencyS]

\* config=None: should_escalate(r) called with one argument.
NoConfig == [none |-> TRUE]

\* cfg = config or DEFAULT_SCRAPE_CONFIG (a dataclass instance is truthy).
EffectiveConfig(c) == IF c = NoConfig THEN DEFAULT_SCRAPE_CONFIG ELSE c

(***************************************************************************)
(* should_escalate: ordered rules, first match wins.                       *)
(***************************************************************************)
\* Mutants of should_escalate, each a slip in one rule.
should_escalate_no_robots_rule(fr, c) ==
    LET cfg == EffectiveConfig(c) IN
    IF fr.captcha THEN FALSE
    ELSE IF fr.error_type # NoneStr THEN TRUE
    ELSE IF fr.status # NoneInt /\ fr.status >= 400 THEN TRUE
    ELSE IF fr.bytes_len < cfg.escalation_min_bytes THEN TRUE
    ELSE IF cfg.escalation_consider_latency /\ fr.ttl_s > cfg.escalation_latency_s THEN TRUE
    ELSE FALSE

should_escalate_captcha_after_error(fr, c) ==
    LET cfg == EffectiveConfig(c) IN
    IF fr.error_type = "robots_blocked" THEN FALSE
    ELSE IF fr.error_type # NoneStr THEN TRUE
    ELSE IF fr.captcha THEN FALSE
    ELSE IF fr.status # NoneInt /\ fr.status >= 400 THEN TRUE
    ELSE IF fr.bytes_len < cfg.escalation_min_bytes THEN TRUE
    ELSE IF cfg.escalation_consider_latency /\ fr.ttl_s > cfg.escalation_latency_s THEN TRUE
    ELSE FALSE

should_escalate_no_error_rule(fr, c) ==
    LET cfg == EffectiveConfig(c) IN
    IF fr.error_type = "robots_blocked" THEN FALSE
    ELSE IF fr.captcha THEN FALSE
    ELSE IF fr.status # NoneInt /\ fr.status >= 400 THEN TRUE
    ELSE IF fr.bytes_len < cfg.escalation_min_bytes THEN TRUE
    ELSE IF cfg.escalation_consider_latency /\ fr.ttl_s > cfg.escalation_latency_s THEN TRUE
    ELSE FALSE

should_escalate_status_gt(fr, c) ==
    LET cfg == EffectiveConfig(c) IN
    IF fr.error_type = "robots_blocked" THEN FALSE
    ELSE IF fr.captcha THEN FALSE
    ELSE IF fr.error_type # NoneStr THEN TRUE
    ELSE IF fr.status # NoneInt /\ fr.status > 400 THEN TRUE
    ELSE IF fr.bytes_len < cfg.escalation_min_bytes THEN TRUE
    ELSE IF cfg.escalation_consider_latency /\ fr.ttl_s > cfg.escalation_latency_s THEN TRUE
    ELSE FALSE

should_escalate_bytes_le(fr, c) ==
    LET cfg == EffectiveConfig(c) IN
    IF fr.error_type = "robots_blocked" THEN FALSE
    ELSE IF fr.captcha THEN FALSE
    ELSE IF fr.error_type # NoneStr THEN TRUE
    ELSE IF fr.status # NoneInt /\ fr.status >= 400 THEN TRUE
    ELSE IF fr.bytes_len <= cfg.escalation_min_bytes THEN TRUE
    ELSE IF cfg.escalation_consider_latency /\ fr.ttl_s > cfg.escalation_latency_s THEN TRUE
    ELSE FALSE

should_escalate_latency_ge(fr, c) ==
    LET cfg == EffectiveConfig(c) IN
    IF fr.error_type = "robots_blocked" THEN FALSE
    ELSE IF fr.captcha THEN FALSE
    ELSE IF fr.error_type # NoneStr THEN TRUE
    ELSE IF fr.status # NoneInt /\ fr.status >= 400 THEN TRUE
    ELSE IF fr.bytes_len < cfg.escalation_min_bytes THEN TRUE
    ELSE IF cfg.escalation_consider_latency /\ fr.ttl_s >= cfg.escalation_latency_s THEN TRUE
    ELSE FALSE

should_escalate(fr, c) ==
    LET cfg == EffectiveConfig(c) IN
    IF fr.error_type = "robots_blocked" THEN FALSE
    ELSE IF fr.captcha THEN FALSE
    ELSE IF fr.error_type # NoneStr THEN TRUE
    ELSE IF fr.status # NoneInt /\ fr.status >= 400 THEN TRUE
    ELSE IF fr.bytes_len < cfg.escalation_min_bytes THEN TRUE
    ELSE IF cfg.escalation_consider_latency /\ fr.ttl_s > cfg.escalation_latency_s THEN TRUE
    ELSE FALSE

(***************************************************************************)
(* The input space of SpecPolicy.  The byte lengths and latencies sit on   *)
(* both sides of every threshold the configurations use.                   *)
(***************************************************************************)
ErrorTypes   == {NoneStr, "robots_blocked", "TimeoutError", "ClientConnectorError"}
StatusCodes  == {NoneInt, 200, 399, 400, 404, 500}
ByteLengths  == {0, 1, 2, 3, 2047, 2048, 2049}
Latencies    == {0, 1, 2, 5, 6}
MinBytesVals == {0, 2, 2048}
LatencyVals  == {1, 5}

FetchResults ==
    [scraper    : {"http"},
     bytes_len  : ByteLengths,
     captcha    : BOOLEAN,
     ttl_s      : Latencies,
     error_type : ErrorTypes,
     status     : StatusCodes]

ScrapeConfigs ==
    [escalation_min_bytes        : MinBytesVals,
     escalation_consider_latency : BOOLEAN,
     escalation_latency_s        : LatencyVals]

PolicyInit ==
    /\ r \in FetchResults
    /\ config \in ScrapeConfigs \cup {NoConfig}
    /\ called = FALSE
    /\ escalate = FALSE

\* A component left idle by a specification.
PolicyIdle ==
    /\ r = [scraper |-> "http", bytes_len |-> 0, captcha |-> FALSE, ttl_s |-> 0,
            error_type |-> NoneStr, status |-> NoneInt]
    /\ config = NoConfig
    /\ called = FALSE
    /\ escalate = FALSE

\* One call of should_escalate(r, config).
ShouldEscalate ==
    /\ ~called
    /\ escalate' = should_escalate(r, config)
    /\ called' = TRUE
    /\ UNCHANGED <<r, config>>
    /\ UNCHANGED nonPolVars

(***************************************************************************)
(* Strings.  str.strip, str.lower, str.startswith, str.split(":", 1)[1],   *)
(* the substring test and str.splitlines, on TLA+ strings.                 *)
(***************************************************************************)
CharAt(s, k) == SubSeq(s, k, k)
From(s, k) == SubSeq(s, k, Len(s))

IsSpace(c) == c \in {" ", "\t", "\r", "\n"}

RECURSIVE LStrip(_)
LStrip(s) == IF Len(s) > 0 /\ IsSpace(CharAt(s, 1)) THEN LStrip(From(s, 2)) ELSE s

RECURSIVE RStrip(_)
RStrip(s) ==
    IF Len(s) > 0 /\ IsSpace(CharAt(s, Len(s)))
    THEN RStrip(SubSeq(s, 1, Len(s) - 1)) ELSE s

Strip(s) == RStrip(LStrip(s))

UpperCase == "ABCDEFGHIJKLMNOPQRSTUVWXYZ"
LowerCase == "abcdefghijklmnopqrstuvwxyz"

LowerChar(c) ==
    IF \E k \in 1..Len(UpperCase) : CharAt(UpperCase, k) = c
    THEN CharAt(LowerCase, CHOOSE k \in 1..Len(UpperCase) : CharAt(UpperCase, k) = c)
    ELSE c

RECURSIVE Lower(_)
Lower(s) == IF Len(s) = 0 THEN "" ELSE LowerChar(CharAt(s, 1)) \o Lower(From(s, 2))

StartsWith(s, p) == Len(s) >= Len(p) /\ SubSeq(s, 1, Len(p)) = p

\* needle in haystack (the empty string is in every string).
Contains(haystack, needle) ==
    \E k \in 0..(Len(haystack) - Len(needle)) :
        SubSeq(haystack, k + 1, k + Len(needle)) = needle

\* s.split(":", 1)[1] for an s that holds a colon.
AfterColon(s) ==
    LET k == CHOOSE n \in 1..Len(s) :
                 /\ CharAt(s, n) = ":"
                 /\ \A m \in 1..(n - 1) : CharAt(s, m) # ":"
    IN From(s, k + 1)

IsBreak(c) == c \in {"\n", "\r"}

\* str.splitlines: lines end at \n, \r or \r\n; no empty last line.
RECURSIVE SplitLines(_)
SplitLines(s) ==
    IF Len(s) = 0 THEN <<>>
    ELSE IF \A n \in 1..Len(s) : ~IsBreak(CharAt(s, n)) THEN <<s>>
    ELSE LET k == CHOOSE n \in 1..Len(s) :
                      /\ IsBreak(CharAt(s, n))
                      /\ \A m \in 1..(n - 1) : ~IsBreak(CharAt(s, m))
             skip == IF CharAt(s, k) = "\r" /\ k < Len(s) /\ CharAt(s, k + 1) = "\n"
                     THEN 2 ELSE 1
         IN <<SubSeq(s, 1, k - 1)>> \o SplitLines(From(s, k + skip))

(***************************************************************************)
(* RobotsCache._parse_robots.                                              *)
(***************************************************************************)
\* config.user_agent (the built-in default).
UserAgent == "Mozilla/5.0"

\* lines = [ln.strip() for ln in content.splitlines()]
StrippedLines(text) ==
    LET raw == SplitLines(text) IN [k \in 1..Len(raw) |-> Strip(raw[k])]

\* The state of the pass before the first line.
ParseStart == [active_block |-> "None", allowed |-> TRUE]

\* Mutants of ParseStep.
\* A Disallow of any path that starts with "/" denies.
ParseStepPrefixDisallow(st, ln, ua) ==
    LET lower == Lower(ln) IN
    IF Len(ln) = 0 \/ StartsWith(ln, "#") THEN st
    ELSE IF StartsWith(lower, "user-agent:")
    THEN LET value == Strip(AfterColon(lower)) IN
         [st EXCEPT !.active_block =
             IF value = "*" THEN "star"
             ELSE IF Contains(ua, value) THEN "us"
             ELSE "None"]
    ELSE IF StartsWith(lower, "disallow:") /\ st.active_block \in {"star", "us"}
    THEN LET rule == Strip(AfterColon(lower)) IN
         IF StartsWith(rule, "/") THEN [st EXCEPT !.allowed = FALSE] ELSE st
    ELSE st

\* A User-agent line that does not match us adds its agent to the group
\* and leaves the block as it is.
ParseStepKeepsGroup(st, ln, ua) ==
    LET lower == Lower(ln) IN
    IF Len(ln) = 0 \/ StartsWith(ln, "#") THEN st
    ELSE IF StartsWith(lower, "user-agent:")
    THEN LET value == Strip(AfterColon(lower)) IN
         [st EXCEPT !.active_block =
             IF value = "*" THEN "star"
             ELSE IF Contains(ua, value) THEN "us"
             ELSE @]
    ELSE IF StartsWith(lower, "disallow:") /\ st.active_block \in {"star", "us"}
    THEN LET rule == Strip(AfterColon(lower)) IN
         IF rule = "/" \/ rule = "/*" THEN [st EXCEPT !.allowed = FALSE] ELSE st
    ELSE st

\* One iteration of the for loop: the line ln (already stripped) read in
\* state st, for the lower-cased user agent ua.
ParseStep(st, ln, ua) ==
    LET lower == Lower(ln) IN
    IF Len(ln) = 0 \/ StartsWith(ln, "#") THEN st
    ELSE IF StartsWith(lower, "user-agent:")
    THEN LET value == Strip(AfterColon(lower)) IN
         [st EXCEPT !.active_block =
             IF value = "*" THEN "star"
             ELSE IF Contains(ua, value) THEN "us"
             ELSE "None"]
    ELSE IF StartsWith(lower, "disallow:") /\ st.active_block \in {"star", "us"}
    THEN LET rule == Strip(AfterColon(lower)) IN
         IF rule = "/" \/ rule = "/*" THEN [st EXCEPT !.allowed = FALSE] ELSE st
    ELSE st

RECURSIVE ParseFrom(_, _, _, _)
ParseFrom(st, lns, k, ua) ==
    IF k > Len(lns) THEN st ELSE ParseFrom(ParseStep(st, lns[k], ua), lns, k + 1, ua)

\* _parse_robots(content, user_agent) as a function of its arguments.
ParseRobots(text, user_agent) ==
    ParseFrom(ParseStart, StrippedLines(text), 1, Lower(user_agent)).allowed

(***************************************************************************)
(* The robots.txt files of SpecParse: up to MaxLines lines of LinePool,    *)
(* joined by line feeds.  Each pool line carries the kind its author meant *)
(* it to be, which the parser never sees.                                  *)
(***************************************************************************)
MaxLines == 3

LinePool ==
    << [text |-> "",                       kind |-> "blank"],
       [text |-> "# Disallow: /",          kind |-> "comment"],
       [text |-> "User-agent: *",          kind |-> "ua_star"],
       [text |-> "user-agent:Mozilla",     kind |-> "ua_us"],
       [text |-> "User-Agent: Googlebot",  kind |-> "ua_other"],
       [text |-> "User-agent:",            kind |-> "ua_empty"],
       [text |-> "Disallow: /",            kind |-> "disallow_all"],
       [text |-> "  disallow:/*\t",        kind |-> "disallow_all"],
       [text |-> "Disallow: /private",     kind |-> "disallow_path"],
       [text |-> "Disallow:",              kind |-> "disallow_path"],
       [text |-> "Allow: /",               kind |-> "other"] >>

Docs == UNION {[1..n -> 1..Len(LinePool)] : n \in 0..MaxLines}

RECURSIVE JoinLines(_, _)
JoinLines(d, k) ==
    IF k > Len(d) THEN ""
    ELSE LinePool[d[k]].text \o (IF k < Len(d) THEN "\n" ELSE "") \o JoinLines(d, k + 1)

ParseInit ==
    /\ doc \in Docs
    /\ content = JoinLines(doc, 1)
    /\ lines = <<>>
    /\ idx = 1
    /\ active_block = "None"
    /\ allow = TRUE
    /\ ppc = "start"
    /\ parsed = TRUE

ParseIdle ==
    /\ doc = <<>>
    /\ content = ""
    /\ lines = <<>>
    /\ idx = 1
    /\ active_block = "None"
    /\ allow = TRUE
    /\ ppc = "start"
    /\ parsed = TRUE

\* Lines 119-123: split and strip the text, initialise the locals.
ParseBegin ==
    /\ ppc = "start"
    /\ lines' = StrippedLines(content)
    /\ idx' = 1
    /\ active_block' = ParseStart.active_block
    /\ allow' = ParseStart.allowed
    /\ ppc' = "loop"
    /\ UNCHANGED <<doc, content, parsed>>
    /\ UNCHANGED nonParseVars

\* Lines 125-143: one iteration of the for loop.
ParseLine ==
    /\ ppc = "loop"
    /\ idx <= Len(lines)
    /\ LET st == ParseStep([active_block |-> active_block, allowed |-> allow],
                           lines[idx], Lower(UserAgent))
       IN /\ active_block' = st.active_block
          /\ allow' = st.allowed
    /\ idx' = idx + 1
    /\ UNCHANGED <<doc, content, lines, ppc, parsed>>
    /\ UNCHANGED nonParseVars

\* Line 145: return allowed.
ParseReturn ==
    /\ ppc = "loop"
    /\ idx > Len(lines)
    /\ parsed' = allow
    /\ ppc' = "done"
    /\ UNCHANGED <<doc, content, lines, idx, active_block, allow>>
    /\ UNCHANGED nonParseVars

ParseNext == ParseBegin \/ ParseLine \/ ParseReturn

(***************************************************************************)
(* RobotsCache: URLs and origins.                                          *)
(***************************************************************************)
IsLetter(c) == \E k \in 1..Len(LowerCase) : CharAt(LowerCase, k) = LowerChar(c)

\* The index of the first character of s in set, or 0.
FirstOf(s, set) ==
    IF \A n \in 1..Len(s) : CharAt(s, n) \notin set THEN 0
    ELSE CHOOSE n \in 1..Len(s) :
             /\ CharAt(s, n) \in set
             /\ \A m \in 1..(n - 1) : CharAt(s, m) \notin set

\* urllib.parse.urlparse, as far as scheme and netloc go: a scheme is a run
\* of letters before the first colon; the netloc follows "//" up to the
\* next "/", "?" or "#"; unbalanced brackets in it raise ValueError.
UrlParse(url) ==
    LET colon == FirstOf(url, {":"})
        hasScheme == /\ colon > 1
                     /\ \A m \in 1..(colon - 1) : IsLetter(CharAt(url, m))
        scheme == IF hasScheme THEN Lower(SubSeq(url, 1, colon - 1)) ELSE ""
        rest == IF hasScheme THEN From(url, colon + 1) ELSE url
        hasNetloc == StartsWith(rest, "//")
        afterSlashes == From(rest, 3)
        stop == FirstOf(afterSlashes, {"/", "?", "#"})
        netloc == IF ~hasNetloc THEN ""
                  ELSE IF stop = 0 THEN afterSlashes
                  ELSE SubSeq(afterSlashes, 1, stop - 1)
        open == FirstOf(netloc, {"["}) > 0
        close == FirstOf(netloc, {"]"}) > 0
    IN [raises |-> open # close, scheme |-> scheme, netloc |-> netloc]

\* _origin_from_url, for a URL that urlparse accepts.
OriginFromUrl(url) ==
    LET parsed_url == UrlParse(url)
        scheme == IF parsed_url.scheme = "" THEN "https" ELSE parsed_url.scheme
    IN scheme \o "://" \o parsed_url.netloc

\* The URLs callers ask about: one with a scheme, one without, and one
\* that urlparse rejects.
Urls == {"https://a/x", "//b/z", "http://[bad"}

UrlRaises == [u \in Urls |-> UrlParse(u).raises]
UrlOrigin == [u \in Urls |-> IF UrlRaises[u] THEN NoneStr ELSE OriginFromUrl(u)]

Origins == {UrlOrigin[u] : u \in {v \in Urls : ~UrlRaises[v]}}

(***************************************************************************)
(* RobotsCache: cache entries.  A value of the JSON map is given by what   *)
(* _get_cached can tell of it:                                             *)
(*   shape    "absent" (no key), "falsy" (null, {}, [], 0, ""),           *)
(*            "scalar" (a truthy value with no .get: list, string,         *)
(*            number), "dict";                                             *)
(*   allowed  "true", "false", "missing", "truthy" (e.g. "no"),            *)
(*            "falsy" (null, 0, "");                                       *)
(*   tsk, ts  "num" with the number, "none" (missing or null), "str".      *)
(***************************************************************************)
Entry(shape, allowed, tsk, ts) ==
    [shape |-> shape, allowed |-> allowed, tsk |-> tsk, ts |-> ts]

AbsentEntry == Entry("absent", "missing", "none", 0)

\* {"allowed": bool(allowed), "ts": time.time()}
NewEntry(allowed, t) == Entry("dict", IF allowed THEN "true" ELSE "false", "num", t)

EmptyCache == [o \in Origins |-> AbsentEntry]

\* config.robots_cache_ttl_s, in ticks of the clock.
TtlS == 1

\* The clock stops at MaxTime.
MaxTime == 2

\* Mutant of GetCached: an entry aged exactly ttl_s is expired.
GetCachedExpiresAtTtl(c, origin, t) ==
    LET entry == c[origin] IN
    IF entry.shape \in {"absent", "falsy"} THEN [kind |-> "miss", val |-> FALSE, exc |-> NoneStr]
    ELSE IF entry.shape = "scalar"
    THEN [kind |-> "raise", val |-> FALSE, exc |-> "AttributeError"]
    ELSE IF entry.tsk = "none" THEN [kind |-> "miss", val |-> FALSE, exc |-> NoneStr]
    ELSE IF entry.tsk = "str"
    THEN [kind |-> "raise", val |-> FALSE, exc |-> "TypeError"]
    ELSE IF (t - entry.ts) >= TtlS THEN [kind |-> "miss", val |-> FALSE, exc |-> NoneStr]
    ELSE [kind |-> "hit", val |-> entry.allowed \in {"true", "missing", "truthy"},
          exc |-> NoneStr]

\* _get_cached(origin) at time t on the map c: a hit with the decision, a
\* miss (None), or the exception that escapes it.
GetCached(c, origin, t) ==
    LET entry == c[origin] IN
    IF entry.shape \in {"absent", "falsy"} THEN [kind |-> "miss", val |-> FALSE, exc |-> NoneStr]
    ELSE IF entry.shape = "scalar"
    THEN [kind |-> "raise", val |-> FALSE, exc |-> "AttributeError"]
    ELSE IF entry.tsk = "none" THEN [kind |-> "miss", val |-> FALSE, exc |-> NoneStr]
    ELSE IF entry.tsk = "str"
    THEN [kind |-> "raise", val |-> FALSE, exc |-> "TypeError"]
    ELSE IF (t - entry.ts) > TtlS THEN [kind |-> "miss", val |-> FALSE, exc |-> NoneStr]
    ELSE [kind |-> "hit", val |-> entry.allowed \in {"true", "missing", "truthy"},
          exc |-> NoneStr]

(***************************************************************************)
(* RobotsCache: the cache file.                                            *)
(***************************************************************************)
File(kind, map) == [kind |-> kind, map |-> map]

\* _load_cache: the map of a file that holds a JSON object; an empty cache
\* for a missing file, a file that does not parse, or another JSON value.
LoadCache(f) == IF f.kind = "map" THEN f.map ELSE EmptyCache

\* _save_cache with the outcome of the write: the whole map replaces the
\* file; a write that fails (swallowed) leaves the file as it was.
SaveOutcomes == {"ok", "failed"}

\* Mutant of SaveCache: the write merges into the file and keeps the
\* entries the file already holds.
SaveCacheKeepsFileEntries(f, c, outcome) ==
    IF outcome = "ok"
    THEN File("map", [o \in Origins |->
                         IF f.kind = "map" /\ f.map[o] # AbsentEntry
                         THEN f.map[o] ELSE c[o]])
    ELSE f

SaveCache(f, c, outcome) == IF outcome = "ok" THEN File("map", c) ELSE f

\* The files a run can start from: for one origin every kind of entry, for
\* the other none.
FirstEntries ==
    { AbsentEntry,
      Entry("falsy", "missing", "none", 0),
      Entry("scalar", "missing", "none", 0),
      Entry("dict", "false", "none", 0),
      Entry("dict", "true", "str", 0),
      Entry("dict", "truthy", "num", 0),
      Entry("dict", "falsy", "num", 0),
      Entry("dict", "missing", "num", 0),
      NewEntry(TRUE, 0),
      NewEntry(FALSE, 0) }

OtherEntries == {AbsentEntry}

InitialFiles ==
    {File("missing", EmptyCache), File("unparsable", EmptyCache),
     File("nondict", EmptyCache)}
    \cup {File("map", [o \in Origins |-> IF o = "https://a" THEN e1 ELSE e2]) :
              e1 \in FirstEntries, e2 \in OtherEntries}

(***************************************************************************)
(* RobotsCache: the network.                                               *)
(***************************************************************************)
RobotsBodies ==
    {"", "User-agent: *\nDisallow: /", "User-agent: *\nDisallow: /private"}

Response(status, body) == [kind |-> "response", status |-> status, body |-> body]

\* What session.get and resp.text() can end in: an exception, or a status
\* with a body.
NetOutcomes ==
    {[kind |-> "error", status |-> 0, body |-> ""]}
    \cup {Response(200, b) : b \in RobotsBodies}
    \cup {Response(399, "User-agent: *\nDisallow: /"),
          Response(400, "User-agent: *\nDisallow: /"),
          Response(404, "")}

\* _fetch_robots: None for an exception or a status >= 400, else the text.
FetchRobots(outcome) ==
    IF outcome.kind = "error" THEN NoneStr
    ELSE IF outcome.status >= 400 THEN NoneStr
    ELSE outcome.body

\* Mutant of Decide: an unreachable robots.txt denies.
DecideDenyWhenUnreachable(text) ==
    IF text = NoneStr THEN FALSE ELSE ParseRobots(text, UserAgent)

\* Lines 58-64 of allowed(): the decision for the text that was fetched.
Decide(text) ==
    IF text = NoneStr THEN TRUE ELSE ParseRobots(text, UserAgent)

\* The text and the decision of every network outcome.
OutcomeText == [o \in NetOutcomes |-> FetchRobots(o)]
TextDecision == [x \in {OutcomeText[o] : o \in NetOutcomes} |-> Decide(x)]

(***************************************************************************)
(* RobotsCache: allowed(url), called by concurrent tasks.  A task runs     *)
(* without interruption except at the await of the network lookup.         *)
(***************************************************************************)
Tasks == {"t1", "t2"}

\* The callers make at most MaxCalls calls between them.
MaxCalls == 3

\* A caller: where its call stands ("idle", "fetching", "returned",
\* "raised"), the locals url, origin and text, whether it went to the
\* network, the last reading of time.time() that decided its answer (in
\* _get_cached for a hit, in _store after a lookup; NoneInt before), and
\* the value returned or the exception that escaped.
IdleTask ==
    [pc |-> "idle", url |-> NoneStr, origin |-> NoneStr, text |-> NoneStr,
     fetched |-> FALSE, at |-> NoneInt, result |-> FALSE, exc |-> NoneStr]

RobotsInit ==
    /\ disk \in InitialFiles
    /\ cache = LoadCache(disk)
    /\ now = 0
    /\ task = [t \in Tasks |-> IdleTask]
    /\ calls = 0

RobotsIdle ==
    /\ disk = File("missing", EmptyCache)
    /\ cache = EmptyCache
    /\ now = 0
    /\ task = [t \in Tasks |-> IdleTask]
    /\ calls = 0

\* allowed(url) up to its first suspension: the origin, the cache lookup,
\* and on a miss the start of the network lookup.
AllowedCall(t, url) ==
    /\ task[t].pc \in {"idle", "returned", "raised"}
    /\ calls < MaxCalls
    /\ calls' = calls + 1
    /\ LET started == [IdleTask EXCEPT !.url = url]
       IN IF UrlRaises[url]
          THEN task' = [task EXCEPT ![t] =
                   [started EXCEPT !.pc = "raised", !.exc = "ValueError"]]
          ELSE LET origin == UrlOrigin[url]
                   cached == GetCached(cache, origin, now)
                   here == [started EXCEPT !.origin = origin]
               IN task' = [task EXCEPT ![t] =
                      IF cached.kind = "raise"
                      THEN [here EXCEPT !.pc = "raised", !.exc = cached.exc]
                      ELSE IF cached.kind = "hit"
                      THEN [here EXCEPT !.pc = "returned", !.at = now,
                                        !.result = cached.val]
                      ELSE [here EXCEPT !.pc = "fetching", !.fetched = TRUE]]
    /\ UNCHANGED <<cache, disk, now>>
    /\ UNCHANGED nonRobVars

\* allowed(url) from the end of the network lookup: the decision, _store
\* (the entry, then _save_cache) and the return.
AllowedResume(t, outcome, save) ==
    /\ task[t].pc = "fetching"
    /\ LET text == OutcomeText[outcome]
           allowed == TextDecision[text]
           origin == task[t].origin
       IN /\ cache' = [cache EXCEPT ![origin] = NewEntry(allowed, now)]
          /\ disk' = SaveCache(disk, cache', save)
          /\ task' = [task EXCEPT ![t] =
                 [@ EXCEPT !.pc = "returned", !.text = text, !.at = now,
                           !.result = allowed]]
    /\ UNCHANGED <<now, calls>>
    /\ UNCHANGED nonRobVars

\* time.time() advances.
Tick ==
    /\ now < MaxTime
    /\ now' = now + 1
    /\ UNCHANGED <<cache, disk, task, calls>>
    /\ UNCHANGED nonRobVars

Call == \E t \in Tasks, url \in Urls : AllowedCall(t, url)
Resume == \E t \in Tasks, outcome \in NetOutcomes, save \in SaveOutcomes :
              AllowedResume(t, outcome, save)

(***************************************************************************)
(* FetchResult (metrics.py), with the fields the scrapers set; domain and  *)
(* proxy_hint keep their default None and are left out.                    *)
(***************************************************************************)
FetchResult(url, scraper, bytes_len, captcha, ttl_s, ttfb_s, error_type, status, retry_count) ==
    [url |-> url, scraper |-> scraper, bytes_len |-> bytes_len,
     captcha |-> captcha, ttl_s |-> ttl_s, ttfb_s |-> ttfb_s,
     error_type |-> error_type, status |-> status, retry_count |-> retry_count]

\* No FetchResult yet.
NoResult == [none |-> TRUE]

(***************************************************************************)
(* ProxySettings (settings.py).                                            *)
(***************************************************************************)
ProxySettings(server, username, password) ==
    [server |-> server, username |-> username, password |-> password]

\* proxy=None.
NoProxy == [none |-> TRUE]

\* The proxies a scraper is built with: none, no server, a bare server, a
\* server with credentials, and a server with credentials whose host has
\* an unbalanced bracket.
Proxies ==
    {NoProxy,
     ProxySettings(NoneStr, NoneStr, NoneStr),
     ProxySettings("http://p:8080", NoneStr, NoneStr),
     ProxySettings("http://p:8080", "u", "pw"),
     ProxySettings("http://[p:8080", "u", "pw")}

Truthy(s) == s # NoneStr /\ s # ""

\* ProxySettings.url: the value, or the exception urlparse raises.
ProxyUrl(p) ==
    IF Truthy(p.server) /\ Truthy(p.username) /\ Truthy(p.password)
    THEN LET parsed_server == UrlParse(p.server)
             hostport == IF parsed_server.netloc # "" THEN parsed_server.netloc ELSE "None:None"
         IN IF parsed_server.raises
            THEN [raises |-> TRUE, exc |-> "ValueError", url |-> NoneStr]
            ELSE [raises |-> FALSE, exc |-> NoneStr,
                  url |-> parsed_server.scheme \o "://" \o p.username \o ":"
                          \o p.password \o "@" \o hostport]
    ELSE [raises |-> FALSE, exc |-> NoneStr, url |-> p.server]

ProxyUrlOf == [p \in Proxies \ {NoProxy} |-> ProxyUrl(p)]

(***************************************************************************)
(* HttpScraper (http_scraper.py).                                          *)
(***************************************************************************)
\* The URLs fetched.
FetchUrls == {"https://a/x", "https://b/y"}

\* config.captcha_detection_bytes: the default and a short window.
DefaultCaptchaDetectionBytes == 4096
ShortCaptchaDetectionBytes == 8
CaptchaWindows == {DefaultCaptchaDetectionBytes, ShortCaptchaDetectionBytes}

\* An await takes up to MaxDelay ticks of perf_counter.
MaxDelay == 1

\* What session.get can raise, and the statuses it can answer with.
GetErrors == {"TimeoutError", "ClientConnectorError", "ClientHttpProxyError",
              "InvalidURL"}
HttpStatuses == {200, 403}

\* What resp.read() can raise, and the bodies it can return.
ReadErrors == {"ClientPayloadError", "TimeoutError"}
HttpBodies == {"", "<html>hi</html>", "Solve the CAPTCHA", "<html>Are You a Robot?"}

\* The CAPTCHA heuristic on the first window bytes of the body.
IsCaptchaBody(body, window) ==
    LET head == SubSeq(body, 1, IF Len(body) < window THEN Len(body) ELSE window)
        lower == Lower(head)
    IN Contains(lower, "captcha") \/ Contains(lower, "are you a robot")

IsCaptcha == [body \in HttpBodies |-> [w \in CaptchaWindows |-> IsCaptchaBody(body, w)]]
BodyLen == [body \in HttpBodies |-> Len(body)]

\* A scraper built with a proxy and a config, before any fetch.  pc is
\* where fetch stands: "idle", "get" (awaiting session.get), "read"
\* (awaiting resp.read), "returned" or "raised"; the other fields are the
\* locals of fetch (elapsed: perf_counter() - t0; status: resp.status; e:
\* the exception caught; NoneStr and NoneInt while unassigned),
\* the record returned and the exception that escaped.
NewHttpScraper(proxy, use_proxy, window) ==
    [pc |-> "idle", proxy |-> proxy, use_proxy |-> use_proxy,
     captcha_detection_bytes |-> window,
     url |-> NoneStr, proxy_url |-> NoneStr, elapsed |-> 0, ttfb |-> NoneInt,
     status |-> NoneInt, body |-> NoneStr, e |-> NoneStr, result |-> NoResult,
     exc |-> NoneStr]

HttpInit ==
    \E proxy \in Proxies, use_proxy \in BOOLEAN, window \in CaptchaWindows :
        http = NewHttpScraper(proxy, use_proxy, window)

HttpIdle == http = NewHttpScraper(NoProxy, TRUE, DefaultCaptchaDetectionBytes)

\* Mutant of HttpFailure: the failure record is flagged as a CAPTCHA page.
HttpFailureFlagsCaptcha(h, e, ttl) ==
    [h EXCEPT !.pc = "returned", !.elapsed = ttl, !.e = e,
              !.result = FetchResult(h.url, "http", 0, TRUE, ttl, h.ttfb, e,
                                     NoneInt, 0)]

\* Mutant of HttpFailure: the failure record keeps the status of the
\* response whose body could not be read.
HttpFailureKeepsStatus(h, e, ttl) ==
    [h EXCEPT !.pc = "returned", !.elapsed = ttl, !.e = e,
              !.result = FetchResult(h.url, "http", 0, FALSE, ttl, h.ttfb, e,
                                     h.status, 0)]

\* The except branch of fetch: the failure record.
HttpFailure(h, e, ttl) ==
    [h EXCEPT !.pc = "returned", !.elapsed = ttl, !.e = e,
              !.result = FetchResult(h.url, "http", 0, FALSE, ttl, h.ttfb, e,
                                     NoneInt, 0)]

\* The return of the try block: the success record.
HttpSuccess(h, body, ttl) ==
    [h EXCEPT !.pc = "returned", !.elapsed = ttl, !.body = body,
              !.result = FetchResult(h.url, "http", BodyLen[body],
                                     IsCaptcha[body][h.captcha_detection_bytes],
                                     ttl, h.ttfb, NoneStr, h.status, 0)]

\* fetch(url) up to the await of session.get: t0, ttfb, proxy_url and
\* headers, which are computed before the try block is entered.
HttpFetch(url) ==
    /\ http.pc \in {"idle", "returned", "raised"}
    /\ LET started == [NewHttpScraper(http.proxy, http.use_proxy,
                                      http.captcha_detection_bytes)
                          EXCEPT !.url = url]
           uses == http.proxy # NoProxy /\ http.use_proxy
       IN IF uses /\ ProxyUrlOf[http.proxy].raises
          THEN http' = [started EXCEPT !.pc = "raised",
                                       !.exc = ProxyUrlOf[http.proxy].exc]
          ELSE http' = [started EXCEPT
                           !.pc = "get",
                           !.proxy_url = IF uses THEN ProxyUrlOf[http.proxy].url
                                         ELSE NoneStr]
    /\ UNCHANGED nonHttpVars

\* session.get ends after d ticks: with an exception, or with a response
\* whose status is kept and whose arrival is the time to first byte.
HttpGet(kind, error, status, d) ==
    /\ http.pc = "get"
    /\ LET t == http.elapsed + d
       IN IF kind = "error"
          THEN http' = HttpFailure(http, error, t)
          ELSE http' = [http EXCEPT !.pc = "read", !.elapsed = t, !.ttfb = t,
                                    !.status = status]
    /\ UNCHANGED nonHttpVars

\* resp.read ends after d ticks: with an exception, or with the body, from
\* which the success record is built.
HttpRead(kind, error, body, d) ==
    /\ http.pc = "read"
    /\ LET t == http.elapsed + d
       IN IF kind = "error"
          THEN http' = HttpFailure(http, error, t)
          ELSE http' = HttpSuccess(http, body, t)
    /\ UNCHANGED nonHttpVars

HttpCall == \E url \in FetchUrls : HttpFetch(url)
HttpResponds ==
    \E kind \in {"error", "response"}, error \in GetErrors,
       status \in HttpStatuses, d \in 0..MaxDelay : HttpGet(kind, error, status, d)
HttpBody ==
    \E kind \in {"error", "body"}, error \in ReadErrors, body \in HttpBodies,
       d \in 0..MaxDelay : HttpRead(kind, error, body, d)

(***************************************************************************)
(* Rendered pages.  page.content() is a str: a sequence of code points,    *)
(* here one-character strings for ASCII and "U+xxxx" names for the rest.   *)
(***************************************************************************)
Chars(s) == [k \in 1..Len(s) |-> CharAt(s, k)]

\* The number of bytes cp.encode("utf-8", "ignore") gives: one for ASCII,
\* two up to U+07FF, three up to U+FFFF, and none for a lone surrogate,
\* which the "ignore" handler drops.
Utf8Bytes(cp) ==
    IF Len(cp) = 1 THEN 1
    ELSE IF cp = "U+00E9" THEN 2
    ELSE IF cp = "U+20AC" THEN 3
    ELSE 0

RECURSIVE EncodeLen(_)
\* len(html.encode("utf-8", "ignore"))
EncodeLen(html) ==
    IF Len(html) = 0 THEN 0 ELSE Utf8Bytes(Head(html)) + EncodeLen(Tail(html))

\* html[:n].lower(), for the code points of the pool (the non-ASCII ones
\* are their own lower case).
HtmlLowerHead(html, n) ==
    [k \in 1..(IF Len(html) < n THEN Len(html) ELSE n) |-> LowerChar(html[k])]

\* needle in text, for an ASCII needle.
HtmlContains(text, needle) ==
    \E k \in 0..(Len(text) - Len(needle)) :
        \A m \in 1..Len(needle) : text[k + m] = CharAt(needle, m)

IsCaptchaHtml(html, window) ==
    LET lower == HtmlLowerHead(html, window)
    IN HtmlContains(lower, "captcha") \/ HtmlContains(lower, "are you a robot")

HtmlPages ==
    {Chars("<html>hi</html>"),
     Chars("<html>caf") \o <<"U+00E9", " ", "U+20AC", "U+D83D">> \o Chars("</html>"),
     Chars("<html>Captcha</html>"),
     Chars("<html>hi Are you a robot")}

HtmlIsCaptcha == [html \in HtmlPages |-> [w \in CaptchaWindows |-> IsCaptchaHtml(html, w)]]
HtmlBytes == [html \in HtmlPages |-> EncodeLen(html)]

(***************************************************************************)
(* BrowserScraper (browser_scraper.py): the scraper object, the resources  *)
(* it holds, and its fetch() call.                                         *)
(***************************************************************************)
\* The proxy argument of chromium.launch.
ProxyDict(proxy, use_proxy) ==
    IF proxy # NoProxy /\ Truthy(proxy.server) /\ use_proxy
    THEN IF Truthy(proxy.username) /\ Truthy(proxy.password)
         THEN [server |-> proxy.server, username |-> proxy.username,
               password |-> proxy.password]
         ELSE [server |-> proxy.server]
    ELSE NoProxy

\* A scraper after __init__.  pc: "new", "entered", "enter_raised",
\* "exited" or "exit_raised".  has_playwright, has_browser and has_context
\* tell whether self._playwright, self._browser and self._context are set;
\* playwright, browser and context are the resources themselves: "none",
\* "open" or "closed".  closed lists the resources closed, in order.
NewBrowserScraper(proxy, use_proxy, block_heavy, window) ==
    [pc |-> "new", proxy |-> proxy, use_proxy |-> use_proxy,
     browser_block_heavy |-> block_heavy, captcha_detection_bytes |-> window,
     has_playwright |-> FALSE, has_browser |-> FALSE, has_context |-> FALSE,
     playwright |-> "none", browser |-> "none", context |-> "none",
     launch_proxy |-> NoProxy, routed |-> FALSE, closed |-> <<>>,
     exc |-> NoneStr]

BrowserProxies == {NoProxy, ProxySettings("http://p:8080", "u", "pw")}

\* No fetch() call yet.  pc: "idle", "goto", "content", "finally",
\* "returned" or "raised"; page: "none", "open" or "closed"; pending: resp
\* and then the record of the return statement, held while finally runs;
\* the other fields are the locals of fetch, the record returned and the
\* exception that escaped.
NoHtml == <<NoneStr>>

IdleFetch ==
    [pc |-> "idle", url |-> NoneStr, page |-> "none", elapsed |-> 0,
     ttfb |-> NoneInt, html |-> NoHtml, pending |-> NoResult, e |-> NoneStr,
     result |-> NoResult, exc |-> NoneStr]

BrowserInit ==
    /\ \E proxy \in BrowserProxies, use_proxy \in BOOLEAN, block_heavy \in BOOLEAN,
          window \in CaptchaWindows :
           bscraper = NewBrowserScraper(proxy, use_proxy, block_heavy, window)
    /\ bfetch = IdleFetch

BrowserIdle ==
    /\ bscraper = NewBrowserScraper(NoProxy, TRUE, TRUE, DefaultCaptchaDetectionBytes)
    /\ bfetch = IdleFetch

\* The steps of __aenter__ that can raise.
EnterSteps == {"start", "launch", "new_context", "route"}

\* __aenter__, where fail_at is the step that raises ("none": no step).
\* What the steps before it acquired stays as it is.
AEnter(fail_at) ==
    /\ bscraper.pc = "new"
    /\ fail_at = "route" => bscraper.browser_block_heavy
    /\ LET s1 == IF fail_at = "start" THEN [bscraper EXCEPT !.exc = "Error"]
                 ELSE [bscraper EXCEPT !.has_playwright = TRUE, !.playwright = "open"]
           s2 == IF s1.exc # NoneStr THEN s1
                 ELSE IF fail_at = "launch" THEN [s1 EXCEPT !.exc = "Error"]
                 ELSE [s1 EXCEPT !.has_browser = TRUE, !.browser = "open",
                                 !.launch_proxy = ProxyDict(s1.proxy, s1.use_proxy)]
           s3 == IF s2.exc # NoneStr THEN s2
                 ELSE IF fail_at = "new_context" THEN [s2 EXCEPT !.exc = "Error"]
                 ELSE [s2 EXCEPT !.has_context = TRUE, !.context = "open"]
           s4 == IF s3.exc # NoneStr \/ ~s3.browser_block_heavy THEN s3
                 ELSE IF fail_at = "route" THEN [s3 EXCEPT !.exc = "Error"]
                 ELSE [s3 EXCEPT !.routed = TRUE]
       IN bscraper' = [s4 EXCEPT !.pc = IF s4.exc # NoneStr THEN "enter_raised"
                                      ELSE "entered"]
    /\ UNCHANGED bfetch
    /\ UNCHANGED nonBrowserVars

\* One statement of __aexit__: "if self._x: await self._x.close()".  It is
\* not reached once an earlier statement has raised; a close that raises
\* may or may not have closed the resource.
CloseStep(s, handle, resource, fail_at, took_effect) ==
    IF s.exc # NoneStr \/ ~s[handle] THEN s
    ELSE IF fail_at = resource
    THEN [s EXCEPT ![resource] = IF took_effect THEN "closed" ELSE @,
                   !.exc = "Error"]
    ELSE [s EXCEPT ![resource] = "closed", !.closed = Append(@, resource)]

\* __aexit__, run when the async with block that __aenter__ opened ends.
AExit(fail_at, took_effect) ==
    /\ bscraper.pc = "entered"
    /\ bfetch.pc \in {"idle", "returned", "raised"}
    /\ LET s1 == CloseStep(bscraper, "has_context", "context", fail_at, took_effect)
           s2 == CloseStep(s1, "has_browser", "browser", fail_at, took_effect)
           s3 == CloseStep(s2, "has_playwright", "playwright", fail_at, took_effect)
       IN bscraper' = [s3 EXCEPT !.pc = IF s3.exc # NoneStr THEN "exit_raised"
                                      ELSE "exited"]
    /\ UNCHANGED bfetch
    /\ UNCHANGED nonBrowserVars

\* What page.goto can raise, and what it can return: no response (None)
\* or a response with a status.
GotoErrors == {"TimeoutError", "Error"}
GotoStatuses == {NoneInt, 200, 403}

\* fetch(url) up to the await of page.goto: t0, ttfb, and the new page,
\* which is opened before the try block is entered.
BrowserFetch(url, opens) ==
    /\ bscraper.pc = "entered"
    /\ bfetch.pc \in {"idle", "returned", "raised"}
    /\ bfetch' = [IdleFetch EXCEPT
                      !.pc = IF opens THEN "goto" ELSE "raised", !.url = url,
                      !.page = IF opens THEN "open" ELSE "none",
                      !.exc = IF opens THEN NoneStr ELSE "Error"]
    /\ UNCHANGED bscraper
    /\ UNCHANGED nonBrowserVars

\* The except branch of fetch: the failure record, returned once the
\* finally clause has run.
BrowserFailure(f, e, ttl) ==
    [f EXCEPT !.pc = "finally", !.elapsed = ttl, !.e = e,
              !.pending = FetchResult(f.url, "browser", 0, FALSE, ttl, f.ttfb, e,
                                      NoneInt, 0)]

\* The return of the try block: the success record, returned once the
\* finally clause has run.
BrowserSuccess(f, html, window, ttl) ==
    LET resp_status == f.pending.resp_status
        status == IF resp_status # NoneInt THEN resp_status ELSE 200
    IN [f EXCEPT !.pc = "finally", !.elapsed = ttl, !.html = html,
                 !.pending = FetchResult(f.url, "browser", HtmlBytes[html],
                                         HtmlIsCaptcha[html][window],
                                         ttl, f.ttfb, NoneStr, status, 0)]

\* page.goto ends after d ticks: with an exception, or with resp.
BrowserGoto(kind, error, status, d) ==
    /\ bfetch.pc = "goto"
    /\ LET t == bfetch.elapsed + d
       IN IF kind = "error"
          THEN bfetch' = BrowserFailure(bfetch, error, t)
          ELSE bfetch' = [bfetch EXCEPT !.pc = "content", !.elapsed = t, !.ttfb = t,
                                        !.pending = [resp_status |-> status]]
    /\ UNCHANGED bscraper
    /\ UNCHANGED nonBrowserVars

\* page.content ends after d ticks: with an exception, or with the html,
\* from which the success record is built.
BrowserContent(kind, error, html, d) ==
    /\ bfetch.pc = "content"
    /\ LET t == bfetch.elapsed + d
       IN IF kind = "error"
          THEN bfetch' = BrowserFailure(bfetch, error, t)
          ELSE bfetch' = BrowserSuccess(bfetch, html,
                                        bscraper.captcha_detection_bytes, t)
    /\ UNCHANGED bscraper
    /\ UNCHANGED nonBrowserVars

\* The finally clause: page.close(), then the pending return.  A close
\* that raises replaces the return, and may or may not have closed the
\* page.
BrowserFinally(closes, took_effect) ==
    /\ bfetch.pc = "finally"
    /\ IF closes
       THEN bfetch' = [bfetch EXCEPT !.pc = "returned", !.page = "closed",
                                     !.result = bfetch.pending]
       ELSE bfetch' = [bfetch EXCEPT !.pc = "raised", !.exc = "Error",
                                     !.page = IF took_effect THEN "closed" ELSE "open"]
    /\ UNCHANGED bscraper
    /\ UNCHANGED nonBrowserVars

Enter == \E fail_at \in EnterSteps \cup {"none"} : AEnter(fail_at)
Exit == \E fail_at \in {"none", "context", "browser", "playwright"},
           took_effect \in BOOLEAN : AExit(fail_at, took_effect)
NewPage == \E url \in FetchUrls, opens \in BOOLEAN : BrowserFetch(url, opens)
Navigate ==
    \E kind \in {"error", "response"}, error \in GotoErrors,
       status \in GotoStatuses, d \in 0..MaxDelay : BrowserGoto(kind, error, status, d)
Serialize ==
    \E kind \in {"error", "html"}, error \in GotoErrors, html \in HtmlPages,
       d \in 0..MaxDelay : BrowserContent(kind, error, html, d)
ClosePage == \E closes \in BOOLEAN, took_effect \in BOOLEAN :
                 BrowserFinally(closes, took_effect)

(***************************************************************************)
(* utils.py.                                                               *)
(***************************************************************************)
\* Mutant of robots_blocked_result: the sentinel carries no error type.
robots_blocked_result_no_error(url) ==
    FetchResult(url, "http", 0, FALSE, 0, NoneInt, NoneStr, NoneInt, 0)

robots_blocked_result(url) ==
    FetchResult(url, "http", 0, FALSE, 0, NoneInt, "robots_blocked", NoneInt, 0)

RETRYABLE_ERRORS ==
    {"TimeoutError", "ClientConnectorError", "ClientHttpProxyError",
     "ClientPayloadError"}

(***************************************************************************)
(* The fetch orchestrator: one state machine per URL (Init, RobotsCheck,   *)
(* LightAttempt, Decide, HeavyAttempt, Done), run concurrently for the     *)
(* URLs of a run, which suspend at the robots lookup, at the admission     *)
(* gate and backoff delay, and at the two fetches.                         *)
(***************************************************************************)
OrchUrls == {"https://a/x", "https://a/y", "https://b/z"}

\* config.http_max_retries, config.max_browser_escalations and
\* config.http_concurrency of the run.
HttpMaxRetries == 1
MaxBrowserEscalations == 1
HttpConcurrency == 2

\* The config of the run, as should_escalate reads it.
OrchConfig ==
    [escalation_min_bytes |-> 2, escalation_consider_latency |-> FALSE,
     escalation_latency_s |-> DefaultEscalationLatencyS]

\* The records HttpScraper.fetch(url) can return to the orchestrator: a
\* failure that is retried and one that is not, a page, an error page, an
\* empty page and a CAPTCHA page.
LightRecords(url) ==
    LET h == [NewHttpScraper(NoProxy, TRUE, DefaultCaptchaDetectionBytes)
                 EXCEPT !.url = url]
        ok == [h EXCEPT !.status = 200, !.ttfb = 0]
        denied == [h EXCEPT !.status = 403, !.ttfb = 0]
    IN {HttpFailure(h, "TimeoutError", 0).result,
        HttpFailure(h, "InvalidURL", 0).result,
        HttpSuccess(ok, "<html>hi</html>", 0).result,
        HttpSuccess(denied, "<html>hi</html>", 0).result,
        HttpSuccess(ok, "", 0).result,
        HttpSuccess(ok, "Solve the CAPTCHA", 0).result}

\* The records BrowserScraper.fetch(url) can return to it: a failure and a
\* page.
HeavyRecords(url) ==
    LET f == [IdleFetch EXCEPT !.url = url, !.page = "open"]
        navigated == [f EXCEPT !.ttfb = 0, !.pending = [resp_status |-> 200]]
    IN {BrowserFailure(f, "TimeoutError", 0).pending,
        BrowserSuccess(navigated, Chars("<html>hi</html>"),
                       DefaultCaptchaDetectionBytes, 0).pending}

\* A URL before its state machine starts.  verdict: what allowed(url)
\* answered ("none" before); attempts: the calls of the light fetcher made;
\* light: the last record of the light path; heavy_started: the heavy
\* fetcher was called; final: the record emitted; exc: the exception that
\* ended the machine.
NewJob ==
    [state |-> "Init", verdict |-> "none", attempts |-> 0, light |-> NoResult,
     heavy_started |-> FALSE, final |-> NoResult, exc |-> NoneStr]

OrchInit ==
    /\ job = [u \in OrchUrls |-> NewJob]
    /\ escalations = 0
    /\ run \in {[proxy |-> NoProxy, use_proxy |-> TRUE],
                [proxy |-> ProxySettings("http://[p:8080", "u", "pw"),
                 use_proxy |-> TRUE]}

OrchIdle ==
    /\ job = [u \in OrchUrls |-> NewJob]
    /\ escalations = 0
    /\ run = [proxy |-> NoProxy, use_proxy |-> TRUE]

\* The light fetcher of the run raises: its proxy URL cannot be built.
LightRaises ==
    /\ run.proxy # NoProxy
    /\ run.use_proxy
    /\ ProxyUrlOf[run.proxy].raises

\* Mutant of CanReserve: the cap is compared after the slot is counted.
CanReserveAfterCounting(n) == n <= MaxBrowserEscalations

\* The heavy-escalation counter has not reached its cap.
CanReserve(n) == n < MaxBrowserEscalations

\* Init -> RobotsCheck: the machine of u starts and asks the robots cache.
OrchStart ==
    \E u \in OrchUrls :
        /\ job[u].state = "Init"
        /\ job' = [job EXCEPT ![u].state = "RobotsCheck"]
        /\ UNCHANGED <<escalations, run>>
        /\ UNCHANGED nonOrchVars

\* RobotsCheck: allowed(u) answers.  A disallowed URL ends with the
\* robots-blocked sentinel; an allowed one goes on to the light path; an
\* exception of allowed() ends the machine.
RobotsAnswers ==
    \E u \in OrchUrls, verdict \in {"allowed", "disallowed", "raised"} :
        /\ job[u].state = "RobotsCheck"
        /\ job' = [job EXCEPT ![u] =
               IF verdict = "raised"
               THEN [@ EXCEPT !.state = "Raised", !.exc = "ValueError"]
               ELSE IF verdict = "disallowed"
               THEN [@ EXCEPT !.state = "Done", !.verdict = verdict,
                              !.final = robots_blocked_result(u)]
               ELSE [@ EXCEPT !.state = "LightWait", !.verdict = verdict]]
        /\ UNCHANGED <<escalations, run>>
        /\ UNCHANGED nonOrchVars

\* LightAttempt, the call: once the backoff delay is over and the admission
\* gate has a slot, the light fetcher is called.
LightAdmit ==
    \E u \in OrchUrls :
        /\ job[u].state = "LightWait"
        /\ Cardinality({v \in OrchUrls : job[v].state = "LightAttempt"})
               < HttpConcurrency
        /\ job' = [job EXCEPT ![u].state = "LightAttempt",
                              ![u].attempts = @ + 1]
        /\ UNCHANGED <<escalations, run>>
        /\ UNCHANGED nonOrchVars

\* Decide and the reservation, on the light-path outcome fr of u with n
\* slots taken: the job and the counter after them.
DecideEscalation(j, fr, n) ==
    IF should_escalate(fr, OrchConfig) /\ CanReserve(n)
    THEN [job |-> [j EXCEPT !.state = "HeavyAttempt", !.light = fr,
                            !.heavy_started = TRUE],
          escalations |-> n + 1]
    ELSE [job |-> [j EXCEPT !.state = "Done", !.light = fr, !.final = fr],
          escalations |-> n]

\* LightAttempt, the return: a record whose error is retryable is retried
\* while attempts remain; any other record is the light-path outcome, on
\* which Decide runs at once; an exception of fetch ends the machine.
LightReturns ==
    \E u \in OrchUrls : \E fr \in LightRecords(u) :
        /\ job[u].state = "LightAttempt"
        /\ LET retries == job[u].attempts - 1
               record == [fr EXCEPT !.retry_count = retries]
               decided == DecideEscalation(job[u], record, escalations)
           IN IF LightRaises
              THEN /\ job' = [job EXCEPT ![u].state = "Raised",
                                         ![u].exc = ProxyUrlOf[run.proxy].exc]
                   /\ UNCHANGED escalations
              ELSE IF record.error_type \in RETRYABLE_ERRORS
                      /\ retries < HttpMaxRetries
              THEN /\ job' = [job EXCEPT ![u].state = "LightWait",
                                         ![u].light = record]
                   /\ UNCHANGED escalations
              ELSE /\ job' = [job EXCEPT ![u] = decided.job]
                   /\ escalations' = decided.escalations
        /\ UNCHANGED run
        /\ UNCHANGED nonOrchVars

\* HeavyAttempt, the return: the heavy-path record replaces the light-path
\* record as the final record; an exception of fetch ends the machine.
HeavyReturns ==
    \E u \in OrchUrls, raises \in BOOLEAN : \E fr \in HeavyRecords(u) :
        /\ job[u].state = "HeavyAttempt"
        /\ job' = [job EXCEPT ![u] =
               IF raises THEN [@ EXCEPT !.state = "Raised", !.exc = "Error"]
               ELSE [@ EXCEPT !.state = "Done", !.final = fr]]
        /\ UNCHANGED <<escalations, run>>
        /\ UNCHANGED nonOrchVars

(***************************************************************************)
(* Specifications.                                                         *)
(***************************************************************************)
vars == <<polVars, parseVars, robVars, httpVars, browserVars, orchVars>>

Init == PolicyIdle /\ ParseIdle /\ RobotsInit /\ HttpIdle /\ BrowserIdle /\ OrchIdle
Next == Call \/ Resume \/ Tick
Spec == Init /\ [][Next]_vars

InitPolicy == PolicyInit /\ ParseIdle /\ RobotsIdle /\ HttpIdle /\ BrowserIdle /\ OrchIdle
PolicyNext == ShouldEscalate
SpecPolicy == InitPolicy /\ [][PolicyNext]_vars

InitParse == PolicyIdle /\ ParseInit /\ RobotsIdle /\ HttpIdle /\ BrowserIdle /\ OrchIdle
SpecParse == InitParse /\ [][ParseNext]_vars

InitHttp == PolicyIdle /\ ParseIdle /\ RobotsIdle /\ HttpInit /\ BrowserIdle /\ OrchIdle
HttpNext == HttpCall \/ HttpResponds \/ HttpBody
SpecHttp == InitHttp /\ [][HttpNext]_vars

InitBrowser == PolicyIdle /\ ParseIdle /\ RobotsIdle /\ HttpIdle /\ BrowserInit /\ OrchIdle
BrowserNext == Enter \/ NewPage \/ Navigate \/ Serialize \/ ClosePage \/ Exit
SpecBrowser == InitBrowser /\ [][BrowserNext]_vars

\* The two scrapers, built from one ScrapeConfig and running side by side,
\* with awaits that take no measurable time.
InitFetchers ==
    /\ PolicyIdle /\ ParseIdle /\ RobotsIdle
    /\ \E window \in CaptchaWindows :
           /\ http = NewHttpScraper(NoProxy, TRUE, window)
           /\ bscraper = NewBrowserScraper(NoProxy, TRUE, TRUE, window)
    /\ bfetch = IdleFetch
    /\ OrchIdle
HttpRespondsAtOnce ==
    \E kind \in {"error", "response"}, error \in GetErrors,
       status \in HttpStatuses : HttpGet(kind, error, status, 0)
HttpBodyAtOnce ==
    \E kind \in {"error", "body"}, error \in ReadErrors, body \in HttpBodies :
        HttpRead(kind, error, body, 0)
NavigateAtOnce ==
    \E kind \in {"error", "response"}, error \in GotoErrors,
       status \in GotoStatuses : BrowserGoto(kind, error, status, 0)
SerializeAtOnce ==
    \E kind \in {"error", "html"}, error \in GotoErrors, html \in HtmlPages :
        BrowserContent(kind, error, html, 0)
FetchersNext ==
    \/ HttpCall \/ HttpRespondsAtOnce \/ HttpBodyAtOnce
    \/ Enter \/ NewPage \/ NavigateAtOnce \/ SerializeAtOnce \/ ClosePage \/ Exit
SpecFetchers == InitFetchers /\ [][FetchersNext]_vars

InitOrch ==
    PolicyIdle /\ ParseIdle /\ RobotsIdle /\ HttpIdle /\ BrowserIdle /\ OrchInit
OrchNext == OrchStart \/ RobotsAnswers \/ LightAdmit \/ LightReturns \/ HeavyReturns
SpecOrch == InitOrch /\ [][OrchNext]_vars

(***************************************************************************)
(* Claims about should_escalate, checked under SpecPolicy.                 *)
(***************************************************************************)
polCfg == EffectiveConfig(config)

\* C1: should_escalate returns false for every record whose error_type is
\* "robots_blocked", whatever the other fields and the configuration are.
C1_RobotsBlockedNeverEscalates ==
    (called /\ r.error_type = "robots_blocked") => escalate = FALSE

\* A robots-blocked record that every later rule would escalate.
C1_Witness ==
    /\ called
    /\ r.error_type = "robots_blocked"
    /\ ~r.captcha
    /\ r.status = 404
    /\ r.bytes_len = 0
    /\ escalate = FALSE

\* C2: should_escalate returns false for every record with captcha = true,
\* regardless of all other fields and of the configuration.
C2_CaptchaNeverEscalates ==
    (called /\ r.captcha) => escalate = FALSE

\* A captcha record with a transport error, a 5xx status, no bytes and a
\* latency above every threshold.
C2_Witness ==
    /\ called
    /\ r.captcha
    /\ r.error_type = "TimeoutError"
    /\ r.status = 500
    /\ r.bytes_len = 0
    /\ r.ttl_s = 6
    /\ config # NoConfig
    /\ config.escalation_consider_latency
    /\ escalate = FALSE

\* C3 as stated: every record whose error_type is non-null and not
\* "robots_blocked" escalates, for every value of the other fields.
C3_AnyErrorEscalates ==
    (called /\ r.error_type # NoneStr /\ r.error_type # "robots_blocked")
        => escalate = TRUE

\* C3 amended: every record whose error_type is non-null and not
\* "robots_blocked" and whose captcha flag is false escalates.
C3_ErrorWithoutCaptchaEscalates ==
    (called /\ r.error_type # NoneStr /\ r.error_type # "robots_blocked"
            /\ ~r.captcha)
        => escalate = TRUE

\* A transport error that no later rule would escalate.
C3_Witness ==
    /\ called
    /\ r.error_type = "TimeoutError"
    /\ ~r.captcha
    /\ r.status = NoneInt
    /\ r.bytes_len = 2049
    /\ r.ttl_s = 0
    /\ escalate = TRUE

\* C4 as stated: every record whose status is present and >= 400 escalates,
\* for every value of the other fields.
C4_AnyHttpErrorEscalates ==
    (called /\ r.status # NoneInt /\ r.status >= 400) => escalate = TRUE

\* C4 amended: every record whose status is present and >= 400, whose
\* error_type is not "robots_blocked" and whose captcha flag is false
\* escalates.
C4_HttpErrorEscalates ==
    (called /\ r.status # NoneInt /\ r.status >= 400
            /\ r.error_type # "robots_blocked" /\ ~r.captcha)
        => escalate = TRUE

\* Status exactly 400 on a record that no other rule would escalate.
C4_Witness ==
    /\ called
    /\ r.status = 400
    /\ r.error_type = NoneStr
    /\ ~r.captcha
    /\ r.bytes_len = 2049
    /\ r.ttl_s = 0
    /\ escalate = TRUE

\* C5: with escalation_min_bytes = B, a record with no error, no captcha
\* flag, a status below 400 (or none) and latency escalation disabled
\* escalates if and only if bytes_len < B.
C5_TinyBodyEscalates ==
    (called /\ r.error_type = NoneStr /\ ~r.captcha
            /\ (r.status = NoneInt \/ r.status < 400)
            /\ ~polCfg.escalation_consider_latency)
        => (escalate <=> r.bytes_len < polCfg.escalation_min_bytes)

\* The boundary bytes_len = B, with a latency that is never consulted.
C5_Witness ==
    /\ called
    /\ r.error_type = NoneStr
    /\ ~r.captcha
    /\ r.status = 200
    /\ config # NoConfig
    /\ ~config.escalation_consider_latency
    /\ config.escalation_min_bytes = 2
    /\ r.bytes_len = 2
    /\ r.ttl_s = 6
    /\ escalate = FALSE

\* C6: for a record that no earlier rule matches, latency escalation
\* disabled never escalates; enabled with threshold T it escalates if and
\* only if ttl_s > T.
C6_LatencyEscalation ==
    (called /\ r.error_type = NoneStr /\ ~r.captcha
            /\ (r.status = NoneInt \/ r.status < 400)
            /\ r.bytes_len >= polCfg.escalation_min_bytes)
        => /\ ~polCfg.escalation_consider_latency => escalate = FALSE
           /\ polCfg.escalation_consider_latency
                  => (escalate <=> r.ttl_s > polCfg.escalation_latency_s)

\* The boundary ttl_s = T with latency escalation enabled.
C6_Witness ==
    /\ called
    /\ r.error_type = NoneStr
    /\ ~r.captcha
    /\ r.status = 200
    /\ config # NoConfig
    /\ config.escalation_consider_latency
    /\ config.escalation_latency_s = 5
    /\ r.bytes_len >= config.escalation_min_bytes
    /\ r.ttl_s = 5
    /\ escalate = FALSE

(***************************************************************************)
(* Claims about _parse_robots, checked under SpecParse.  They are stated   *)
(* over the authored file doc: the kinds of its lines, not their text.     *)
(***************************************************************************)
Kind(k) == LinePool[doc[k]].kind

IsUaLine(k) == Kind(k) \in {"ua_star", "ua_us", "ua_other", "ua_empty"}

\* A User-agent line that opens a block for us: "*", or a value that is a
\* substring of our user agent (the empty value is one).
IsMatchingUa(k) == Kind(k) \in {"ua_star", "ua_us", "ua_empty"}

\* The User-agent line that governs line k: the last one before it.
HasGovernor(k) == \E g \in 1..(k - 1) : IsUaLine(g)
Governor(k) ==
    CHOOSE g \in 1..(k - 1) : IsUaLine(g) /\ \A m \in (g + 1)..(k - 1) : ~IsUaLine(m)

\* A matching block is active at line k.
ActiveAt(k) == HasGovernor(k) /\ IsMatchingUa(Governor(k))

\* A Disallow of everything that takes effect.
Denies(k) == Kind(k) = "disallow_all" /\ ActiveAt(k)

\* Lines that must not matter: partial-path Disallows, other directives,
\* comments, blank lines, and non-User-agent lines of non-matching blocks.
IsNeutral(k) ==
    \/ Kind(k) \in {"blank", "comment", "disallow_path", "other"}
    \/ ~IsUaLine(k) /\ ~ActiveAt(k)

Without(d, k) == [n \in 1..(Len(d) - 1) |-> IF n < k THEN d[n] ELSE d[n + 1]]

C10_OwnBlockNotOverriddenByStar ==
    ( /\ ppc = "done"
      /\ \E k \in 1..Len(doc) : Denies(k)
      /\ \A k \in 1..Len(doc) :
             Denies(k) => /\ Kind(Governor(k)) = "ua_star"
                          /\ \E j \in 1..(Governor(k) - 1) : Kind(j) = "ua_us" )
        => parsed = TRUE

(***************************************************************************)
(* Claims about RobotsCache.allowed, checked under Spec.                   *)
(***************************************************************************)
\* C7: allowed(url) never fails: for every URL, network outcome, disk-save
\* outcome and content of the cache file at startup, the call returns a
\* boolean and no exception escapes it.
C7_AllowedNeverFails == \A t \in Tasks : task[t].pc # "raised"

\* Task t returned from a lookup that ended in a network error, a status
\* >= 400 (text is None) or an empty body, having stored its decision.
FailedLookup(t) ==
    /\ task[t].pc = "returned"
    /\ task[t].fetched
    /\ task[t].text \in {NoneStr, ""}

\* This step completes the lookup of task t with such an outcome.
FailedLookupEnds(t) ==
    /\ task[t].pc = "fetching"
    /\ task'[t].pc = "returned"
    /\ task'[t].text \in {NoneStr, ""}

\* This step is a call of allowed() by task u for origin o.
CallsFor(u, o) ==
    /\ task[u].pc # "fetching"
    /\ task'[u] # task[u]
    /\ task'[u].origin = o

\* The call that task u starts in this step returns true from the cache.
AnsweredTrueFromCache(u) ==
    /\ task'[u].pc = "returned"
    /\ ~task'[u].fetched
    /\ task'[u].result = TRUE
    /\ cache' = cache

\* The first half of C8: a failed lookup returns true and records
\* allowed = true with the current timestamp.
FailedLookupRecordsTrue ==
    \A t \in Tasks :
        FailedLookupEnds(t) =>
            /\ task'[t].result = TRUE
            /\ cache'[task[t].origin] = NewEntry(TRUE, now)

\* C8 as stated: when the lookup for an origin ends in a network error, a
\* status >= 400 or an empty body, allowed() returns true and records
\* allowed = true with the current timestamp, and every later call for
\* the origin within the TTL returns true without a new lookup.
C8_FailedLookupAllowsForTtl ==
    [][ /\ FailedLookupRecordsTrue
        /\ \A t, u \in Tasks :
               ( /\ FailedLookup(t)
                 /\ CallsFor(u, task[t].origin)
                 /\ now - task[t].at <= TtlS )
                   => AnsweredTrueFromCache(u) ]_vars

\* C8 amended: ... and every later call for the origin within the TTL
\* returns true without a new lookup as long as the recorded entry is
\* still the origin's entry (no lookup for the same origin that was in
\* flight at the time has overwritten it since).
C8_FailedLookupAllowsWhileRecorded ==
    [][ /\ FailedLookupRecordsTrue
        /\ \A t, u \in Tasks :
               ( /\ FailedLookup(t)
                 /\ CallsFor(u, task[t].origin)
                 /\ now - task[t].at <= TtlS
                 /\ cache[task[t].origin] = NewEntry(TRUE, task[t].at) )
                   => AnsweredTrueFromCache(u) ]_vars

\* A failed lookup recorded by one task, and a call of another task for
\* the same origin answered true from the cache when the entry is aged
\* exactly the TTL.
C8_Witness ==
    \E t, u \in Tasks :
        /\ t # u
        /\ FailedLookup(t)
        /\ task[t].result = TRUE
        /\ cache[task[t].origin] = NewEntry(TRUE, task[t].at)
        /\ task[u].pc = "returned"
        /\ task[u].origin = task[t].origin
        /\ ~task[u].fetched
        /\ task[u].at = task[t].at + TtlS
        /\ task[u].result = TRUE

\* The entry is a record with a numeric timestamp aged at most the TTL at
\* time t.
FreshEntry(entry, t) ==
    /\ entry.shape = "dict"
    /\ entry.tsk = "num"
    /\ t - entry.ts <= TtlS

\* The entry is a record with a numeric timestamp older than the TTL at
\* time t.
ExpiredEntry(entry, t) ==
    /\ entry.shape = "dict"
    /\ entry.tsk = "num"
    /\ t - entry.ts > TtlS

\* The call that task u starts in this step is answered from the cache:
\* it returns with no network lookup and leaves the cache as it was.
AnsweredFromCache(u) ==
    /\ task'[u].pc = "returned"
    /\ ~task'[u].fetched
    /\ cache' = cache

\* C11: allowed(url) answers from the cache with no network lookup if and
\* only if the entry of the URL's origin has now - ts <= ttl_s (an entry
\* aged exactly ttl_s is fresh); an older entry is treated as absent: the
\* call goes to the network, and when the lookup ends the entry is
\* overwritten with the new decision and the new timestamp.
C11_FreshEntryAnswersFromCache ==
    [][ \A t \in Tasks :
          /\ \A o \in Origins :
                 CallsFor(t, o) =>
                     /\ AnsweredFromCache(t) <=> FreshEntry(cache[o], now)
                     /\ ExpiredEntry(cache[o], now) => task'[t].pc = "fetching"
          /\ (task[t].pc = "fetching" /\ task'[t].pc # "fetching") =>
                 /\ task'[t].pc = "returned"
                 /\ cache'[task[t].origin] = NewEntry(task'[t].result, now) ]_vars

\* One call was answered from the cache by an entry aged exactly the TTL,
\* and a later call for the same origin found that entry older than the
\* TTL, went to the network and overwrote it (the file, whose write
\* failed, still holds the old entry).
C11_Witness ==
    \E t, u \in Tasks :
        /\ task[t].pc = "returned"
        /\ ~task[t].fetched
        /\ disk.kind = "map"
        /\ disk.map[task[t].origin].tsk = "num"
        /\ task[t].at - disk.map[task[t].origin].ts = TtlS
        /\ task[u].pc = "returned"
        /\ task[u].fetched
        /\ task[u].origin = task[t].origin
        /\ ExpiredEntry(disk.map[task[u].origin], task[u].at)
        /\ cache[task[u].origin] = NewEntry(task[u].result, task[u].at)

\* This step is the _store of task t, with a write of the file that
\* succeeds.
StoresAndSaves(t) ==
    \E outcome \in NetOutcomes : AllowedResume(t, outcome, "ok")

\* Task t has stored the decision of a lookup, and it is still the entry
\* of its origin.
HoldsStored(t) ==
    /\ task[t].pc = "returned"
    /\ task[t].fetched
    /\ cache[task[t].origin] = NewEntry(task[t].result, task[t].at)

\* C12: under any interleaving of concurrent allowed() calls, a store
\* changes the entry of its own origin only, and when the write of the
\* file succeeds the file holds the full in-memory map: the decision that
\* a concurrent call recorded for another origin is still in memory and in
\* the file.
C12_StoresDoNotInterleave ==
    [][ \A t \in Tasks :
          /\ (task[t].pc = "fetching" /\ task'[t].pc # "fetching") =>
                 \A o \in Origins \ {task[t].origin} : cache'[o] = cache[o]
          /\ StoresAndSaves(t) =>
                 /\ disk' = File("map", cache')
                 /\ \A u \in Tasks \ {t} :
                        (HoldsStored(u) /\ task[u].origin # task[t].origin) =>
                            /\ HoldsStored(u)'
                            /\ disk'.map[task[u].origin] =
                                   NewEntry(task[u].result, task[u].at) ]_vars

\* Two callers have each stored the decision of their lookup, for two
\* different origins, the second store with an entry for the first origin
\* already in the file, and the file holds the full map with both.
C12_Witness ==
    \E t, u \in Tasks :
        /\ HoldsStored(t)
        /\ HoldsStored(u)
        /\ task[t].origin # task[u].origin
        /\ task[t].result # task[u].result
        /\ disk = File("map", cache)

\* C13: HttpScraper.fetch(url) never raises: every failure at any step of
\* the call (building the proxy URL and headers, issuing the request,
\* reading the body) is converted into a returned record with scraper =
\* http, error_type = the name of the exception, bytes_len = 0 and status
\* null.
C13_HttpFetchNeverRaises ==
    /\ http.pc # "raised"
    /\ (http.pc = "returned" /\ http.e # NoneStr) =>
           /\ http.result.scraper = "http"
           /\ http.result.error_type = http.e
           /\ http.result.bytes_len = 0
           /\ http.result.status = NoneInt

\* C14: BrowserScraper.fetch(url) never raises while the resource is held:
\* a failure at any step (opening the page, navigation, DOM serialization,
\* closing the page) yields a returned failure record with scraper =
\* browser, error_type = the name of the exception and bytes_len = 0, and
\* the page opened for the fetch is closed when the call returns.
C14_BrowserFetchNeverRaises ==
    /\ bfetch.pc # "raised"
    /\ (bfetch.pc = "returned" /\ bfetch.e # NoneStr) =>
           /\ bfetch.result.scraper = "browser"
           /\ bfetch.result.error_type = bfetch.e
           /\ bfetch.result.bytes_len = 0
    /\ bfetch.pc = "returned" => bfetch.page = "closed"

\* The three resources of the scraper, in the order of teardown.
Resources == <<"context", "browser", "playwright">>

\* __aexit__ has run, to its end or to an exception.
AExitRan == bscraper.pc \in {"exited", "exit_raised"}

\* C15: teardown closes the context, then the browser, then the Playwright
\* engine, in that order, and attempts each later step even if an earlier
\* step fails: after __aexit__ has run none of the three remains open,
\* whichever close step raised.
C15_TeardownClosesAll ==
    AExitRan =>
        /\ \A k \in 1..Len(bscraper.closed) : bscraper.closed[k] = Resources[k]
        /\ \A k \in 1..Len(Resources) : bscraper[Resources[k]] # "open"

\* C20: the browser resource is released on every exit path of its
\* acquisition: if __aenter__ fails after the Playwright engine has
\* started (browser launch, context creation or route installation
\* raises), the engine and any browser already launched are closed and
\* nothing is left running.
C20_FailedSetupReleases ==
    bscraper.pc = "enter_raised" =>
        \A k \in 1..Len(Resources) : bscraper[Resources[k]] # "open"

\* The record is well formed as C19 has it for a light-path record:
\* exactly one of error_type and status is non-null.
ExactlyOneOfErrorAndStatus(fr) ==
    (fr.error_type # NoneStr) # (fr.status # NoneInt)

\* C19 as stated: in every record returned by HttpScraper.fetch or
\* BrowserScraper.fetch, bytes_len is a non-negative integer that is 0 if
\* and only if the fetch failed (error_type non-null); for light-path
\* records exactly one of error_type and status is non-null.
C19_BytesLenZeroIffFailed ==
    /\ http.pc = "returned" =>
           /\ http.result.bytes_len \in Nat
           /\ http.result.bytes_len = 0 <=> http.result.error_type # NoneStr
           /\ ExactlyOneOfErrorAndStatus(http.result)
    /\ bfetch.pc = "returned" =>
           /\ bfetch.result.bytes_len \in Nat
           /\ bfetch.result.bytes_len = 0 <=> bfetch.result.error_type # NoneStr

\* C19 amended: ... bytes_len is a non-negative integer that is 0 if and
\* only if the fetch failed (error_type non-null) or the content fetched
\* is empty; for light-path records exactly one of error_type and status
\* is non-null.
C19_BytesLenZeroIffFailedOrEmpty ==
    /\ http.pc = "returned" =>
           /\ http.result.bytes_len \in Nat
           /\ http.result.bytes_len = 0 <=>
                  (http.result.error_type # NoneStr \/ http.body = "")
           /\ ExactlyOneOfErrorAndStatus(http.result)
    /\ bfetch.pc = "returned" =>
           /\ bfetch.result.bytes_len \in Nat
           /\ bfetch.result.bytes_len = 0 <=>
                  (bfetch.result.error_type # NoneStr \/ Len(bfetch.html) = 0)

\* The light fetch returned the record of a response with an empty body
\* (no error, a status, bytes_len 0), and the heavy fetch returned the
\* record of a page that could not be serialized after its response had
\* arrived (an error, bytes_len 0).
C19_Witness ==
    /\ http.pc = "returned"
    /\ http.body = ""
    /\ http.result.error_type = NoneStr
    /\ http.result.status # NoneInt
    /\ http.result.bytes_len = 0
    /\ bfetch.pc = "returned"
    /\ bfetch.ttfb # NoneInt
    /\ bfetch.result.error_type # NoneStr
    /\ bfetch.result.bytes_len = 0

\* The URLs for which the heavy fetcher has been called.
HeavyStarted == {u \in OrchUrls : job[u].heavy_started}

\* This step ends the light path of u: its last light fetch returns a
\* record that is not retried.
LightPathEnds(u) ==
    /\ job[u].state = "LightAttempt"
    /\ job'[u].state \in {"Done", "HeavyAttempt"}

\* C16: across the URLs of a run, processed concurrently, at most
\* max_browser_escalations heavy fetches are ever started, each with a
\* slot of the counter reserved in the step that decides it; and a URL
\* whose light-path record is eligible to escalate when the cap is
\* exhausted ends with that record as its final record, no heavy fetch
\* having been started for it.
C16_HeavyEscalationCap ==
    [][ /\ Cardinality(HeavyStarted') <= MaxBrowserEscalations
        /\ escalations' = Cardinality(HeavyStarted')
        /\ \A u \in OrchUrls :
               ( /\ LightPathEnds(u)
                 /\ should_escalate(job'[u].light, OrchConfig)
                 /\ escalations >= MaxBrowserEscalations )
                   => /\ job'[u].state = "Done"
                      /\ job'[u].final = job'[u].light
                      /\ job'[u].final.scraper = "http"
                      /\ ~job'[u].heavy_started ]_vars

\* Every URL of the run ended its light path with a record eligible to
\* escalate; the heavy fetcher was started for as many of them as the cap
\* allows, and each of the others has its light-path record as final.
C16_Witness ==
    /\ Cardinality(OrchUrls) > MaxBrowserEscalations
    /\ Cardinality(HeavyStarted) = MaxBrowserEscalations
    /\ \A u \in OrchUrls :
           /\ job[u].state \in {"Done", "HeavyAttempt"}
           /\ job[u].light # NoResult
           /\ should_escalate(job[u].light, OrchConfig)
           /\ ~job[u].heavy_started => job[u].final = job[u].light

\* C17: for one URL the light fetch is attempted at most http_max_retries
\* + 1 times; a further attempt is made only when the last record's
\* error_type is in the retryable set and attempts remain; retry_count is
\* the number of retries consumed; and the loop always ends with a
\* light-path outcome.
C17_RetryBound ==
    [][ \A u \in OrchUrls :
          /\ job'[u].attempts <= HttpMaxRetries + 1
          /\ (job[u].attempts > 0 /\ job'[u].attempts > job[u].attempts) =>
                 /\ job[u].light.error_type \in RETRYABLE_ERRORS
                 /\ job[u].attempts <= HttpMaxRetries
          /\ (job[u].state = "LightAttempt" /\ job'[u].state # "LightAttempt") =>
                 /\ job'[u].state \in {"LightWait", "Done", "HeavyAttempt"}
                 /\ job'[u].light.scraper = "http"
                 /\ job'[u].light.retry_count = job[u].attempts - 1 ]_vars

\* C18: for a URL that the robots cache reports as disallowed, no light
\* fetch and no heavy fetch is ever performed; its final record is the
\* robots-blocked sentinel, with error_type "robots_blocked", bytes_len 0
\* and status null, and that record is not escalated.
C18_DisallowedNeverFetched ==
    \A u \in OrchUrls :
        job[u].verdict = "disallowed" =>
            /\ job[u].state = "Done"
            /\ job[u].attempts = 0
            /\ ~job[u].heavy_started
            /\ job[u].final = robots_blocked_result(u)
            /\ job[u].final.error_type = "robots_blocked"
            /\ job[u].final.bytes_len = 0
            /\ job[u].final.status = NoneInt
            /\ ~should_escalate(job[u].final, OrchConfig)

\* One URL was reported disallowed and ended with the sentinel, while the
\* heavy fetcher was started for another URL of the run and its slot
\* taken.
C18_Witness ==
    \E u, v \in OrchUrls :
        /\ job[u].verdict = "disallowed"
        /\ job[u].final = robots_blocked_result(u)
        /\ job[v].verdict = "allowed"
        /\ job[v].heavy_started
        /\ escalations = MaxBrowserEscalations

\* fetch has returned the record of its except branch.
HttpFailed == http.pc = "returned" /\ http.e # NoneStr

\* C21: every failure record that HttpScraper.fetch returns has captcha =
\* false and an error_type other than "robots_blocked", so should_escalate
\* returns true for it under every configuration, the default one
\* (config=None) included.
C21_HttpFailureAlwaysEscalates ==
    HttpFailed =>
        /\ http.result.captcha = FALSE
        /\ http.result.error_type # NoneStr
        /\ http.result.error_type # "robots_blocked"
        /\ \A c \in ScrapeConfigs \cup {NoConfig} : should_escalate(http.result, c)

\* fetch has returned the failure record of a body that could not be read
\* after the response had arrived, and the policy escalates it under a
\* configuration whose size and latency rules would not.
C21_Witness ==
    /\ HttpFailed
    /\ http.e = "ClientPayloadError"
    /\ http.ttfb # NoneInt
    /\ should_escalate(http.result,
                       [escalation_min_bytes |-> 0,
                        escalation_consider_latency |-> FALSE,
                        escalation_latency_s |-> DefaultEscalationLatencyS])

\* The agent that a User-agent line of each kind names, in lower case.
DeclaredAgent ==
    [ua_star |-> "*", ua_us |-> "mozilla", ua_other |-> "googlebot", ua_empty |-> ""]

\* The User-agent line k activates the block: its value is "*" or a
\* substring of our lower-cased user agent.
Activates(k) ==
    LET value == DeclaredAgent[Kind(k)]
    IN value = "*" \/ Contains(Lower(UserAgent), value)

\* The most recent User-agent line before line k activates the block.
GovernedByActive(k) == HasGovernor(k) /\ Activates(Governor(k))

\* The file is a group that lists "User-agent: *" and then a bot that is
\* not us, followed by Disallow lines only.
StarThenOtherBotGroup ==
    /\ Len(doc) >= 3
    /\ Kind(1) = "ua_star"
    /\ Kind(2) = "ua_other"
    /\ \A k \in 3..Len(doc) : Kind(k) \in {"disallow_all", "disallow_path"}

====
